---- MODULE Spec2Model ----
(***************************************************************************)
(* Model of src/coffee_machine.py: the CoffeeMachine object (resources,    *)
(* menu, money_collected, orders) and the interactive loop CoffeeMachine.  *)
(* run.  The loop blocks at three input() calls; the model has one control *)
(* point per input() call and one action per branch taken from it.         *)
(*                                                                         *)
(* Order.timestamp (time.strftime, a wall-clock reading) is not part of    *)
(* the order records of the model: it is never read by the code except to  *)
(* be printed by show_order_history.                                       *)
(***************************************************************************)
EXTENDS Integers, Sequences, FiniteSets, TLC

VARIABLES
    resources,        \* self.resources: water, milk, coffee
    money_collected,  \* self.money_collected
    orders,           \* self.orders: sequence of Order records
    pc,               \* which input() call run is blocked at
    choice,           \* local `choice` of run (after .lower())
    password,         \* local `password` of run, <<>> when not read
    ret,              \* value returned by the last check_resources call
    amount,           \* local `amount` of run, <<>> when not assigned
    change,           \* local `change` of run, <<>> when not assigned
    out               \* lines printed since the last choice was read

vars == <<resources, money_collected, orders, pc, choice, password, ret,
          amount, change, out>>

machine == <<resources, money_collected, orders>>

----------------------------------------------------------------------------
(* Bounds of the environment (the inputs typed at the prompts).            *)

MaxTender == 300
MaxCalls == 6

\* amounts typed at "Enter amount: Rs " that int() accepts
TenderedAmounts == {-50, 50, 100, 200, 250, MaxTender}

\* text typed at "Enter amount: Rs ": numeric text carries its value
AmountInputs ==
    {[numeric |-> TRUE, value |-> v] : v \in TenderedAmounts}
        \cup {[numeric |-> FALSE, value |-> 0]}

\* text typed at the choice prompt, before .lower()
ChoiceInputs ==
    {"espresso", "latte", "cappuccino", "LATTE", "report", "Report",
     "history", "exit", "mocha"}

\* text typed at the password prompt (compared as typed)
PasswordInputs == {"gcuadmin", "GCUADMIN", ""}

\* inventory levels of the function-level specification
ResourceLevels == {0, 17, 18, 23, 24, 49, 50, 99, 100, 149, 150, 199, 200,
                   249, 250}

----------------------------------------------------------------------------
(* Data: Drink, Order, the initial machine.                                *)

Drink(name, water, milk, coffee, cost) ==
    [name |-> name, water |-> water, milk |-> milk, coffee |-> coffee,
     cost |-> cost]

Order(drink_name, amount_paid) ==
    [drink_name |-> drink_name, amount_paid |-> amount_paid]

menu ==
    [espresso   |-> Drink("Espresso", 50, 0, 18, 100),
     latte      |-> Drink("Latte", 200, 150, 24, 200),
     cappuccino |-> Drink("Cappuccino", 250, 100, 24, 250)]

InitialResources == [water |-> 1000, milk |-> 800, coffee |-> 300]

AdminPassword == "gcuadmin"

\* str.lower() on the texts of ChoiceInputs
Lower(s) ==
    CASE s = "LATTE" -> "latte"
      [] s = "Report" -> "report"
      [] OTHER -> s

\* a printed line
Line(kind, text, nums) == [kind |-> kind, text |-> text, nums |-> nums]

----------------------------------------------------------------------------
(* Methods of CoffeeMachine, as functions of the current state.            *)

\* print_report with money_collected printed as the number of orders
print_report_wrong_count ==
    << Line("report", "Water", <<resources.water>>),
       Line("report", "Milk", <<resources.milk>>),
       Line("report", "Coffee", <<resources.coffee>>),
       Line("report", "Total Sales", <<money_collected>>),
       Line("report", "Total Orders", <<money_collected>>) >>

\* print_report: the five lines of the report
print_report ==
    << Line("report", "Water", <<resources.water>>),
       Line("report", "Milk", <<resources.milk>>),
       Line("report", "Coffee", <<resources.coffee>>),
       Line("report", "Total Sales", <<money_collected>>),
       Line("report", "Total Orders", <<Len(orders)>>) >>

\* check_resources without the test of coffee
check_resources_no_coffee_test(res, drink) ==
    IF res.water < drink.water
    THEN [ret |-> FALSE, out |-> <<Line("error", "Not enough water.", <<>>)>>]
    ELSE IF res.milk < drink.milk
    THEN [ret |-> FALSE, out |-> <<Line("error", "Not enough milk.", <<>>)>>]
    ELSE [ret |-> TRUE, out |-> <<>>]

\* check_resources with <= in place of <
check_resources_off_by_one(res, drink) ==
    IF res.water <= drink.water
    THEN [ret |-> FALSE, out |-> <<Line("error", "Not enough water.", <<>>)>>]
    ELSE IF res.milk <= drink.milk
    THEN [ret |-> FALSE, out |-> <<Line("error", "Not enough milk.", <<>>)>>]
    ELSE IF res.coffee <= drink.coffee
    THEN [ret |-> FALSE, out |-> <<Line("error", "Not enough coffee.", <<>>)>>]
    ELSE [ret |-> TRUE, out |-> <<>>]

\* check_resources with milk tested before water
check_resources_milk_first(res, drink) ==
    IF res.milk < drink.milk
    THEN [ret |-> FALSE, out |-> <<Line("error", "Not enough milk.", <<>>)>>]
    ELSE IF res.water < drink.water
    THEN [ret |-> FALSE, out |-> <<Line("error", "Not enough water.", <<>>)>>]
    ELSE IF res.coffee < drink.coffee
    THEN [ret |-> FALSE, out |-> <<Line("error", "Not enough coffee.", <<>>)>>]
    ELSE [ret |-> TRUE, out |-> <<>>]

\* check_resources: the value returned and the line printed, for the
\* inventory res; the three tests are made in the order of the code
check_resources(res, drink) ==
    IF res.water < drink.water
    THEN [ret |-> FALSE, out |-> <<Line("error", "Not enough water.", <<>>)>>]
    ELSE IF res.milk < drink.milk
    THEN [ret |-> FALSE, out |-> <<Line("error", "Not enough milk.", <<>>)>>]
    ELSE IF res.coffee < drink.coffee
    THEN [ret |-> FALSE, out |-> <<Line("error", "Not enough coffee.", <<>>)>>]
    ELSE [ret |-> TRUE, out |-> <<>>]

\* make_drink with money_collected = drink.cost in place of +=
make_drink_overwrites_revenue(drink) ==
    [resources |-> [water  |-> resources.water - drink.water,
                    milk   |-> resources.milk - drink.milk,
                    coffee |-> resources.coffee - drink.coffee],
     money_collected |-> drink.cost,
     orders |-> Append(orders, Order(drink.name, drink.cost)),
     out |-> <<Line("served", drink.name, <<>>)>>]

\* make_drink without the deduction of milk
make_drink_forgets_milk(drink) ==
    [resources |-> [water  |-> resources.water - drink.water,
                    milk   |-> resources.milk,
                    coffee |-> resources.coffee - drink.coffee],
     money_collected |-> money_collected + drink.cost,
     orders |-> Append(orders, Order(drink.name, drink.cost)),
     out |-> <<Line("served", drink.name, <<>>)>>]

\* make_drink with the order inserted at the head of the list
make_drink_prepends(drink) ==
    [resources |-> [water  |-> resources.water - drink.water,
                    milk   |-> resources.milk - drink.milk,
                    coffee |-> resources.coffee - drink.coffee],
     money_collected |-> money_collected + drink.cost,
     orders |-> <<Order(drink.name, drink.cost)>> \o orders,
     out |-> <<Line("served", drink.name, <<>>)>>]

\* make_drink with the running total recorded as the amount paid
make_drink_records_total(drink) ==
    [resources |-> [water  |-> resources.water - drink.water,
                    milk   |-> resources.milk - drink.milk,
                    coffee |-> resources.coffee - drink.coffee],
     money_collected |-> money_collected + drink.cost,
     orders |-> Append(orders, Order(drink.name, money_collected + drink.cost)),
     out |-> <<Line("served", drink.name, <<>>)>>]

\* make_drink with += in place of -= for water
make_drink_adds_water(drink) ==
    [resources |-> [water  |-> resources.water + drink.water,
                    milk   |-> resources.milk - drink.milk,
                    coffee |-> resources.coffee - drink.coffee],
     money_collected |-> money_collected + drink.cost,
     orders |-> Append(orders, Order(drink.name, drink.cost)),
     out |-> <<Line("served", drink.name, <<>>)>>]

\* make_drink: the machine after the call and the line printed; the method
\* makes no test of its own
make_drink(drink) ==
    [resources |-> [water  |-> resources.water - drink.water,
                    milk   |-> resources.milk - drink.milk,
                    coffee |-> resources.coffee - drink.coffee],
     money_collected |-> money_collected + drink.cost,
     orders |-> Append(orders, Order(drink.name, drink.cost)),
     out |-> <<Line("served", drink.name, <<>>)>>]

\* the slice s[:n] in place of s[-n:]
LastN_takes_head(s, n) ==
    IF Len(s) <= n THEN s ELSE SubSeq(s, 1, n)

\* the slice s[-n:] of a list
LastN(s, n) ==
    IF Len(s) <= n THEN s ELSE SubSeq(s, Len(s) - n + 1, Len(s))

\* the line show_order_history prints for one order
OrderLine(order) == Line("order", order.drink_name, <<order.amount_paid>>)

\* show_order_history: the lines printed
show_order_history ==
    IF orders = <<>>
    THEN <<Line("info", "No orders placed yet.", <<>>)>>
    ELSE <<Line("info", "Order History (Last 5 orders):", <<>>)>>
         \o [i \in 1..Len(LastN(orders, 5)) |-> OrderLine(LastN(orders, 5)[i])]

\* int(text): the value, or ValueError
IntOf(inp) ==
    IF inp.numeric THEN [ok |-> TRUE, value |-> inp.value]
                   ELSE [ok |-> FALSE, value |-> 0]

\* the payment test with > in place of >=
enough_money_strict(amt, drink) == amt > drink.cost

\* the payment test of run: amount >= drink.cost
enough_money(amt, drink) == amt >= drink.cost

\* the change with the operands exchanged
change_due_reversed(amt, drink) == drink.cost - amt

\* the change of run: amount - drink.cost
change_due(amt, drink) == amt - drink.cost

----------------------------------------------------------------------------
(* The run loop.                                                           *)

Init ==
    /\ resources = InitialResources
    /\ money_collected = 0
    /\ orders = <<>>
    /\ pc = "choice"
    /\ choice = ""
    /\ password = <<>>
    /\ ret = <<>>
    /\ amount = <<>>
    /\ change = <<>>
    /\ out = <<>>

\* a new iteration reads `choice`; the other locals are dead until assigned
ReadChoice(raw) ==
    /\ pc = "choice"
    /\ choice' = Lower(raw)
    /\ password' = <<>>
    /\ amount' = <<>>
    /\ change' = <<>>

\* choice == 'exit'
Exit ==
    \E raw \in ChoiceInputs :
        /\ ReadChoice(raw)
        /\ choice' = "exit"
        /\ out' = <<Line("info", "Thank you for visiting GCU Coffee Machine!", <<>>)>>
        /\ pc' = "exited"
        /\ ret' = <<>>
        /\ UNCHANGED machine

\* choice == 'report': the loop asks for the password
Report ==
    \E raw \in ChoiceInputs :
        /\ ReadChoice(raw)
        /\ choice' = "report"
        /\ out' = <<>>
        /\ pc' = "password"
        /\ ret' = <<>>
        /\ UNCHANGED machine

\* EnterPassword with the password compared without regard to case
EnterPassword_ignores_case ==
    \E pw \in PasswordInputs :
        /\ pc = "password"
        /\ password' = <<pw>>
        /\ out' = IF pw \in {"gcuadmin", "GCUADMIN"}
                  THEN print_report
                  ELSE <<Line("error", "Access denied.", <<>>)>>
        /\ pc' = "choice"
        /\ UNCHANGED <<machine, choice, ret, amount, change>>

\* the password is read and compared
EnterPassword ==
    \E pw \in PasswordInputs :
        /\ pc = "password"
        /\ password' = <<pw>>
        /\ out' = IF pw = AdminPassword
                  THEN print_report
                  ELSE <<Line("error", "Access denied.", <<>>)>>
        /\ pc' = "choice"
        /\ UNCHANGED <<machine, choice, ret, amount, change>>

\* choice == 'history'
History ==
    \E raw \in ChoiceInputs :
        /\ ReadChoice(raw)
        /\ choice' = "history"
        /\ out' = show_order_history
        /\ pc' = "choice"
        /\ ret' = <<>>
        /\ UNCHANGED machine

\* choice in self.menu: check_resources, then the request for payment
OrderDrink ==
    \E raw \in ChoiceInputs :
        /\ ReadChoice(raw)
        /\ choice' \notin {"exit", "report", "history"}
        /\ choice' \in DOMAIN menu
        /\ LET checked == check_resources(resources, menu[choice'])
           IN  /\ ret' = <<checked.ret>>
               /\ IF checked.ret
                  THEN /\ out' = checked.out
                                 \o <<Line("pay", "Please pay Rs", <<menu[choice'].cost>>)>>
                       /\ pc' = "amount"
                  ELSE /\ out' = checked.out
                       /\ pc' = "choice"
        /\ UNCHANGED machine

\* EnterAmount with make_drink called before the payment test
EnterAmount_deducts_first ==
    \E inp \in AmountInputs :
        /\ pc = "amount"
        /\ LET drink == menu[choice]
               parsed == IntOf(inp)
               made == make_drink(drink)
           IN  IF ~parsed.ok
               THEN /\ out' = out \o <<Line("error", "Invalid input. Please enter a number.", <<>>)>>
                    /\ UNCHANGED <<machine, amount, change>>
               ELSE /\ amount' = <<parsed.value>>
                    /\ resources' = made.resources
                    /\ money_collected' = made.money_collected
                    /\ orders' = made.orders
                    /\ IF enough_money(parsed.value, drink)
                       THEN LET chg == change_due(parsed.value, drink)
                            IN  /\ change' = <<chg>>
                                /\ out' = out
                                          \o (IF chg > 0
                                              THEN <<Line("change", "Here is your change: Rs", <<chg>>)>>
                                              ELSE <<>>)
                                          \o made.out
                       ELSE /\ out' = out \o <<Line("error", "Not enough money. Money refunded.", <<>>)>>
                            /\ UNCHANGED change
        /\ pc' = "choice"
        /\ UNCHANGED <<choice, password, ret>>

\* the amount is read: ValueError, payment accepted, or payment refused
EnterAmount ==
    \E inp \in AmountInputs :
        /\ pc = "amount"
        /\ LET drink == menu[choice]
               parsed == IntOf(inp)
           IN  IF ~parsed.ok
               THEN /\ out' = out \o <<Line("error", "Invalid input. Please enter a number.", <<>>)>>
                    /\ UNCHANGED <<machine, amount, change>>
               ELSE /\ amount' = <<parsed.value>>
                    /\ IF enough_money(parsed.value, drink)
                       THEN LET made == make_drink(drink)
                                chg == change_due(parsed.value, drink)
                            IN  /\ change' = <<chg>>
                                /\ resources' = made.resources
                                /\ money_collected' = made.money_collected
                                /\ orders' = made.orders
                                /\ out' = out
                                          \o (IF chg > 0
                                              THEN <<Line("change", "Here is your change: Rs", <<chg>>)>>
                                              ELSE <<>>)
                                          \o made.out
                       ELSE /\ out' = out \o <<Line("error", "Not enough money. Money refunded.", <<>>)>>
                            /\ UNCHANGED <<machine, change>>
        /\ pc' = "choice"
        /\ UNCHANGED <<choice, password, ret>>

\* InvalidOption leaving the loop (break) in place of returning to the prompt
InvalidOption_leaves_loop ==
    \E raw \in ChoiceInputs :
        /\ ReadChoice(raw)
        /\ choice' \notin {"exit", "report", "history"}
        /\ choice' \notin DOMAIN menu
        /\ out' = <<Line("error", "Invalid option. Try again.", <<>>)>>
        /\ pc' = "exited"
        /\ ret' = <<>>
        /\ UNCHANGED machine

\* any other choice
InvalidOption ==
    \E raw \in ChoiceInputs :
        /\ ReadChoice(raw)
        /\ choice' \notin {"exit", "report", "history"}
        /\ choice' \notin DOMAIN menu
        /\ out' = <<Line("error", "Invalid option. Try again.", <<>>)>>
        /\ pc' = "choice"
        /\ ret' = <<>>
        /\ UNCHANGED machine

Next ==
    \/ Exit
    \/ Report
    \/ EnterPassword
    \/ History
    \/ OrderDrink
    \/ EnterAmount
    \/ InvalidOption

Spec == Init /\ [][Next]_vars

----------------------------------------------------------------------------
(* The methods called one at a time by a caller other than run: the state  *)
(* is the machine as constructed, pc stays "call".                         *)

InitApi ==
    /\ resources = InitialResources
    /\ money_collected = 0
    /\ orders = <<>>
    /\ pc = "call"
    /\ choice = ""
    /\ password = <<>>
    /\ ret = <<>>
    /\ amount = <<>>
    /\ change = <<>>
    /\ out = <<>>

\* machine.check_resources(machine.menu[key])
CallCheckResources ==
    \E key \in DOMAIN menu :
        /\ pc = "call"
        /\ choice' = key
        /\ ret' = <<check_resources(resources, menu[key]).ret>>
        /\ out' = check_resources(resources, menu[key]).out
        /\ UNCHANGED <<machine, pc, password, amount, change>>

\* machine.make_drink(machine.menu[key])
CallMakeDrink ==
    \E key \in DOMAIN menu :
        /\ pc = "call"
        /\ Len(orders) < MaxCalls
        /\ choice' = key
        /\ ret' = <<>>
        /\ resources' = make_drink(menu[key]).resources
        /\ money_collected' = make_drink(menu[key]).money_collected
        /\ orders' = make_drink(menu[key]).orders
        /\ out' = make_drink(menu[key]).out
        /\ UNCHANGED <<pc, password, amount, change>>

NextApi ==
    \/ CallCheckResources
    \/ CallMakeDrink

SpecApi == InitApi /\ [][NextApi]_vars

----------------------------------------------------------------------------
(* check_resources as a function: every inventory of ResourceLevels, every *)
(* drink of the menu.                                                      *)

InitFn ==
    /\ resources \in [water : ResourceLevels, milk : ResourceLevels,
                      coffee : ResourceLevels]
    /\ money_collected = 0
    /\ orders = <<>>
    /\ pc = "call"
    /\ choice = ""
    /\ password = <<>>
    /\ ret = <<>>
    /\ amount = <<>>
    /\ change = <<>>
    /\ out = <<>>

NextFn == CallCheckResources

SpecFn == InitFn /\ [][NextFn]_vars

----------------------------------------------------------------------------
(* Vocabulary of the properties.                                           *)

\* the last line printed, when there is one
LastKind(o) == IF o = <<>> THEN "" ELSE o[Len(o)].kind
LastText(o) == IF o = <<>> THEN "" ELSE o[Len(o)].text

\* the iteration ended with the drink served
Served(o) == LastKind(o) = "served"

ResourceRejections ==
    {"Not enough water.", "Not enough milk.", "Not enough coffee."}

PurchaseRejections ==
    ResourceRejections
        \cup {"Invalid option. Try again.",
              "Invalid input. Please enter a number.",
              "Not enough money. Money refunded."}

\* the iteration ended with the purchase attempt refused
Rejected(o) == LastKind(o) = "error" /\ LastText(o) \in PurchaseRejections

\* the inventory res covers each requirement of the drink
CanFulfill(res, drink) ==
    /\ res.water >= drink.water
    /\ res.milk >= drink.milk
    /\ res.coffee >= drink.coffee

\* the menu entry with display name n
DrinkNamed(n) == menu[CHOOSE k \in DOMAIN menu : menu[k].name = n]

RECURSIVE SumPrices(_)
\* the sum of the catalog prices of the drinks of a ledger
SumPrices(s) ==
    IF s = <<>> THEN 0
    ELSE DrinkNamed(s[Len(s)].drink_name).cost + SumPrices(SubSeq(s, 1, Len(s) - 1))

\* s is a prefix of t
IsPrefix(s, t) == Len(s) <= Len(t) /\ SubSeq(t, 1, Len(s)) = s

\* the inventory res less the requirement of the drink
Less(res, drink) ==
    [water  |-> res.water - drink.water,
     milk   |-> res.milk - drink.milk,
     coffee |-> res.coffee - drink.coffee]

----------------------------------------------------------------------------
(* C1: in every state of the run loop, money_collected equals the sum of   *)
(* the catalog prices of the drinks of all orders of the ledger.           *)
C1_RevenueMatchesLedger == money_collected = SumPrices(orders)

\* two different drinks sold, the last one overpaid
C1_Witness ==
    /\ Len(orders) >= 2
    /\ orders[1].drink_name # orders[2].drink_name
    /\ Served(out) /\ change # <<>> /\ change[1] > 0

(* C2: a step that ends a purchase attempt with a rejection (unknown       *)
(* option, a resource short, payment below the price, payment not a        *)
(* number) leaves resources, orders and money_collected as they were.      *)
C2_RejectionChangesNothing ==
    [][Rejected(out') => UNCHANGED machine]_vars

\* a payment below the price was refused on a machine that has sold drinks
C2_Witness ==
    /\ LastText(out) = "Not enough money. Money refunded."
    /\ amount # <<>>
    /\ Len(orders) >= 1

(* C3: in every state of the run loop water, milk and coffee are each at   *)
(* least zero.                                                             *)
C3_ResourcesNonNegative ==
    /\ resources.water >= 0
    /\ resources.milk >= 0
    /\ resources.coffee >= 0

\* the water ran out exactly, with the last drink just served
C3_Witness == resources.water = 0 /\ Served(out)

(* C4: a purchase attempt commits if and only if the choice is in the      *)
(* menu, the inventory covers the drink and the amount tendered is at      *)
(* least the price: the machine changes only in such a step, such a step   *)
(* always commits, and an amount below the price changes nothing.          *)
C4_CommitIff ==
    [][ /\ (machine' # machine) =>
              /\ pc = "amount"
              /\ choice \in DOMAIN menu
              /\ CanFulfill(resources, menu[choice])
              /\ amount' # <<>>
              /\ amount'[1] >= menu[choice].cost
        /\ (pc = "choice" /\ pc' # "exited" /\ choice' \in DOMAIN menu
                /\ CanFulfill(resources, menu[choice'])) => pc' = "amount"
        /\ (pc = "amount" /\ amount' # <<>> /\ amount'[1] >= menu[choice].cost) =>
              /\ Served(out')
              /\ Len(orders') = Len(orders) + 1
              /\ resources' # resources
              /\ money_collected' > money_collected
        /\ (pc = "amount" /\ amount' # <<>> /\ amount'[1] < menu[choice].cost) =>
              /\ ~Served(out')
              /\ UNCHANGED machine
      ]_vars

\* a drink was served for exactly its price
C4_Witness ==
    /\ Served(out)
    /\ amount = <<menu[choice].cost>>
    /\ Len(orders) >= 1

(* C5: the step that serves drink d subtracts d's water, milk and coffee   *)
(* from the resources, adds d's price to money_collected and appends one   *)
(* order naming d to the ledger, all in that one step; no other step       *)
(* changes any of the three.                                               *)
C5_CommitEffect ==
    [][ /\ Served(out') =>
              /\ resources' = Less(resources, menu[choice])
              /\ money_collected' = money_collected + menu[choice].cost
              /\ Len(orders') = Len(orders) + 1
              /\ SubSeq(orders', 1, Len(orders)) = orders
              /\ orders'[Len(orders')].drink_name = menu[choice].name
        /\ (resources' # resources \/ money_collected' # money_collected
                \/ orders' # orders) => Served(out')
      ]_vars

\* a latte was served after another drink
C5_Witness ==
    /\ Served(out)
    /\ choice = "latte"
    /\ Len(orders) >= 2
    /\ resources.milk < InitialResources.milk

(* C6: when a drink is served the change is the amount tendered minus the  *)
(* price and is not negative; a positive change is the one printed; the    *)
(* change is assigned in no iteration other than one that serves a drink.  *)
C6_ChangeIsTenderedMinusPrice ==
    /\ Served(out) =>
          /\ amount # <<>> /\ change # <<>>
          /\ change[1] = amount[1] - menu[choice].cost
          /\ change[1] >= 0
          /\ (change[1] > 0) <=>
                (\E i \in 1..Len(out) :
                    out[i].kind = "change" /\ out[i].nums = <<amount[1] - menu[choice].cost>>)
    /\ change # <<>> => Served(out)

\* a drink served with change due, after a drink served for the exact price
C6_Witness ==
    /\ Served(out)
    /\ change # <<>> /\ change[1] = 50
    /\ Len(orders) >= 2

(* C7: for every inventory and every drink of the menu, check_resources    *)
(* returns true exactly when water, milk and coffee each cover the drink's *)
(* requirement, and the call leaves resources, orders and money_collected  *)
(* unchanged.                                                              *)
C7_CheckResourcesExact ==
    [][ /\ ret' # <<>> => (ret'[1] <=> CanFulfill(resources, menu[choice']))
        /\ UNCHANGED machine
      ]_vars

\* the call returned true with water and coffee exactly at the requirement
C7_Witness ==
    /\ ret = <<TRUE>>
    /\ resources.water = menu[choice].water
    /\ resources.coffee = menu[choice].coffee

C9_FirstShortResourceReported ==
    LET d == menu[choice] IN
    /\ ret = <<FALSE>> =>
          /\ Len(out) = 1
          /\ out[1].text \in ResourceRejections
          /\ out[1].text = "Not enough water." <=> resources.water < d.water
          /\ out[1].text = "Not enough milk." <=>
                (resources.water >= d.water /\ resources.milk < d.milk)
          /\ out[1].text = "Not enough coffee." <=>
                (resources.water >= d.water /\ resources.milk >= d.milk
                    /\ resources.coffee < d.coffee)
    /\ ret = <<TRUE>> => out = <<>>

\* milk was reported although coffee is short as well
C9_Witness ==
    /\ ret = <<FALSE>>
    /\ LastText(out) = "Not enough milk."
    /\ resources.coffee < menu[choice].coffee

(* C10: in every step the ledger before is a prefix of the ledger after;   *)
(* it grows by one record in a step that serves a drink and by none in any *)
(* other step.                                                             *)
C10_LedgerAppendOnly ==
    [][ /\ IsPrefix(orders, orders')
        /\ Len(orders') <= Len(orders) + 1
        /\ (Len(orders') = Len(orders) + 1) <=> (pc = "amount" /\ Served(out'))
      ]_vars

\* the history was shown for a ledger of two different drinks or more
C10_Witness ==
    /\ LastKind(out) = "order"
    /\ Len(orders) >= 3
    /\ orders[1].drink_name # orders[3].drink_name

\* the lines of o of one kind, in the order printed
RECURSIVE LinesOfKind(_, _)
LinesOfKind(o, k) ==
    IF o = <<>> THEN <<>>
    ELSE LinesOfKind(SubSeq(o, 1, Len(o) - 1), k)
            \o (IF o[Len(o)].kind = k THEN <<o[Len(o)]>> ELSE <<>>)

\* the smaller of two numbers
Min(a, b) == IF a <= b THEN a ELSE b

\* the history has just been shown
HistoryShown == pc = "choice" /\ choice = "history" /\ out # <<>>

\* the report has just been shown
ReportShown(o) == Len(o) = 5 /\ \A i \in 1..5 : o[i].kind = "report"

(* C11: the history shows the last min(5, length) records of the ledger,   *)
(* oldest first: the whole ledger when it has 5 records or fewer, and no   *)
(* record (a notice, not an error) when the ledger is empty.               *)
C11_HistoryShowsLastFive ==
    HistoryShown =>
        LET shown == LinesOfKind(out, "order")
            n == Min(5, Len(orders))
        IN  /\ Len(shown) = n
            /\ \A i \in 1..n :
                  /\ shown[i].text = orders[Len(orders) - n + i].drink_name
                  /\ shown[i].nums = <<orders[Len(orders) - n + i].amount_paid>>
            /\ Len(orders) <= 5 => Len(shown) = Len(orders)
            /\ orders = <<>> => (out = <<Line("info", "No orders placed yet.", <<>>)>>)
            /\ LinesOfKind(out, "error") = <<>>

\* the history was shown for a ledger of more than 5 records whose first
\* record differs from the first record shown
C11_Witness ==
    /\ HistoryShown
    /\ Len(orders) >= 7
    /\ orders[1].drink_name # orders[Len(orders) - 4].drink_name

(* C12: the report and the history change none of resources,               *)
(* money_collected and orders, and the report shows the current water,     *)
(* milk, coffee and revenue and, as order count, the length of the ledger  *)
(* (so two reports with no purchase between them show the same).           *)
C12_ReportingIsReadOnly ==
    [][ /\ (pc = "password" \/ (pc = "choice" /\ choice' \in {"report", "history"}))
              => UNCHANGED machine
        /\ ReportShown(out') =>
              /\ out'[1].nums = <<resources'.water>>
              /\ out'[2].nums = <<resources'.milk>>
              /\ out'[3].nums = <<resources'.coffee>>
              /\ out'[4].nums = <<money_collected'>>
              /\ out'[5].nums = <<Len(orders')>>
      ]_vars

\* the report was shown for a machine that has sold two drinks
C12_Witness == ReportShown(out) /\ Len(orders) >= 2

(* C13: on the fresh machine, espresso paid with exactly 100 is served     *)
(* with change 0 and leaves water 950, milk 800, coffee 282,               *)
(* money_collected 100 and one order in the ledger.                        *)
C13_EspressoScenario ==
    [][ /\ (pc = "choice" /\ choice' = "espresso" /\ resources = InitialResources)
              => pc' = "amount"
        /\ (pc = "amount" /\ choice = "espresso" /\ resources = InitialResources
                /\ money_collected = 0 /\ orders = <<>> /\ amount' = <<100>>) =>
              /\ Served(out')
              /\ change' = <<0>>
              /\ resources' = [water |-> 950, milk |-> 800, coffee |-> 282]
              /\ money_collected' = 100
              /\ Len(orders') = 1
      ]_vars

\* the state after the espresso of the scenario
C13_Witness ==
    /\ Served(out)
    /\ choice = "espresso" /\ amount = <<100>> /\ change = <<0>>
    /\ Len(orders) = 1
    /\ resources.coffee = 282

(* C14: the report is shown only for the password equal to the configured  *)
(* one: with it the report is shown, with any other password access is     *)
(* denied, no report line is printed and the machine is unchanged.         *)
C14_ReportNeedsPassword ==
    [][ /\ pc = "password" =>
              /\ UNCHANGED machine
              /\ IF password' = <<AdminPassword>>
                 THEN ReportShown(out')
                 ELSE /\ out' = <<Line("error", "Access denied.", <<>>)>>
                      /\ LinesOfKind(out', "report") = <<>>
        /\ LinesOfKind(out', "report") # <<>> =>
              (pc = "password" /\ password' = <<"gcuadmin">>)
      ]_vars

\* access was denied to the password in capitals, after a sale
C14_Witness ==
    /\ password = <<"GCUADMIN">>
    /\ LastText(out) = "Access denied."
    /\ Len(orders) >= 1

(* C15: within a purchase attempt the payment is asked for only after the  *)
(* resource check has passed, and the drink is served only after the       *)
(* payment has been read and found sufficient; an attempt for a drink the  *)
(* inventory does not cover ends with the resource refusal, with no        *)
(* request for payment and no amount read.                                 *)
C15_CheckThenPayThenServe ==
    [][ /\ pc' = "amount" =>
              /\ pc = "choice"
              /\ choice' \in DOMAIN menu
              /\ CanFulfill(resources, menu[choice'])
              /\ LastKind(out') = "pay"
        /\ Served(out') =>
              /\ pc = "amount"
              /\ LastKind(out) = "pay"
              /\ amount' # <<>>
              /\ amount'[1] >= menu[choice].cost
        /\ (pc = "choice" /\ pc' # "exited" /\ choice' \in DOMAIN menu
                /\ ~CanFulfill(resources, menu[choice'])) =>
              /\ pc' = "choice"
              /\ LastText(out') \in ResourceRejections
              /\ LinesOfKind(out', "pay") = <<>>
              /\ amount' = <<>>
              /\ UNCHANGED machine
      ]_vars

\* an attempt was refused for a short resource: no payment asked, none read
C15_Witness ==
    /\ pc = "choice"
    /\ choice \in DOMAIN menu
    /\ LastText(out) \in ResourceRejections
    /\ LinesOfKind(out, "pay") = <<>>
    /\ amount = <<>>

\* the password was refused
Denied(o) == LastText(o) = "Access denied."

(* C16: after every refusal (unknown option, short resource, payment below *)
(* the price, payment not a number, wrong password) the loop is back at    *)
(* the prompt, not ended: every drink the inventory covers can be ordered  *)
(* next, and at the request for payment every amount of at least the price *)
(* gets the drink served.                                                  *)
C16_RefusalReturnsToPrompt ==
    /\ (Rejected(out) \/ Denied(out)) =>
          /\ pc = "choice"
          /\ \A key \in DOMAIN menu :
                CanFulfill(resources, menu[key]) =>
                    ENABLED (OrderDrink /\ choice' = key /\ pc' = "amount")
    /\ pc = "amount" =>
          \A a \in TenderedAmounts :
              a >= menu[choice].cost =>
                  ENABLED (EnterAmount /\ amount' = <<a>> /\ Served(out')
                              /\ Len(orders') = Len(orders) + 1)

\* a payment that was not a number was refused while espresso is available
C16_Witness ==
    /\ LastText(out) = "Invalid input. Please enter a number."
    /\ pc = "choice"
    /\ CanFulfill(resources, menu["espresso"])
    /\ Len(orders) >= 1

RECURSIVE SumUsed(_, _)
\* the quantity of resource r required by the drinks of a ledger
SumUsed(s, r) ==
    IF s = <<>> THEN 0
    ELSE DrinkNamed(s[Len(s)].drink_name)[r] + SumUsed(SubSeq(s, 1, Len(s) - 1), r)

(* C17: in every state each of water, milk and coffee equals its initial   *)
(* quantity (1000, 800, 300) less the sum, over the orders of the ledger,  *)
(* of the quantity the drink of the order requires.                        *)
C17_InventoryConserved ==
    /\ resources.water = 1000 - SumUsed(orders, "water")
    /\ resources.milk = 800 - SumUsed(orders, "milk")
    /\ resources.coffee = 300 - SumUsed(orders, "coffee")

\* three drinks sold, one of them with milk
C17_Witness ==
    /\ Len(orders) >= 3
    /\ resources.milk < 800
    /\ orders[1].drink_name # orders[2].drink_name

(* C18: every order of the ledger has amount_paid equal to the catalog     *)
(* price of the drink it names, whatever amount was tendered.              *)
C18_OrderRecordsPrice ==
    \A i \in 1..Len(orders) :
        orders[i].amount_paid = DrinkNamed(orders[i].drink_name).cost

\* the last order was overpaid and records less than the amount tendered
C18_Witness ==
    /\ Served(out)
    /\ Len(orders) >= 2
    /\ amount # <<>>
    /\ amount[1] > orders[Len(orders)].amount_paid

(* C19: no step increases water, milk or coffee, and a drink for which     *)
(* check_resources fails before a step fails after it as well.            *)
C19_NoRefill ==
    [][ /\ resources'.water <= resources.water
        /\ resources'.milk <= resources.milk
        /\ resources'.coffee <= resources.coffee
        /\ \A key \in DOMAIN menu :
              ~check_resources(resources, menu[key]).ret
                  => ~check_resources(resources', menu[key]).ret
      ]_vars

\* a drink was served while another one is no longer available
C19_Witness ==
    /\ Served(out)
    /\ \E key \in DOMAIN menu : ~check_resources(resources, menu[key]).ret

(* C20: the ledger never has more than 16 orders and money_collected never *)
(* more than 16 times the highest price (in fact never more than 1750);    *)
(* every order served uses at least 18 g of coffee, so that the orders of  *)
(* a run are finitely many; with 16 orders in the ledger, and whenever     *)
(* espresso is not available, check_resources fails for every drink.       *)
C20_CommitsAreBounded ==
    /\ [](/\ Len(orders) <= 16
          /\ money_collected <= 16 * 250
          /\ money_collected <= 1750
          /\ (Len(orders) = 16 \/ ~check_resources(resources, menu["espresso"]).ret)
                => \A key \in DOMAIN menu : ~check_resources(resources, menu[key]).ret)
    /\ [][ Len(orders') > Len(orders) =>
              /\ resources'.coffee <= resources.coffee - 18
              /\ resources'.coffee >= 0
         ]_vars

\* 16 orders in the ledger and a further attempt refused for a resource
C20_Witness ==
    /\ Len(orders) = 16
    /\ LastText(out) \in ResourceRejections

====
